---------------------------- MODULE Spec2Model ----------------------------
(* Iron-carbon phase solver (ThermoEngine in src/src/App.jsx).              *)
(*                                                                          *)
(* Numbers are fixed point.  Carbon (wt%), ratios and powers carry six      *)
(* decimals (CS units per 1), temperatures carry four (TS units per degree  *)
(* Celsius), phase fractions carry six decimals of a percent.  Every        *)
(* intermediate product is kept below 2^31.                                 *)
EXTENDS Integers, Sequences, FiniteSets, TLC

\* ------------------------------------------------------------------------
\* Fixed-point arithmetic (the JavaScript double operations of the source)
\* ------------------------------------------------------------------------

CS == 1000000
TS == 10000
PCT == 100 * CS

Max(a, b) == IF a >= b THEN a ELSE b
Min(a, b) == IF a <= b THEN a ELSE b
Abs(a) == IF a < 0 THEN 0 - a ELSE a

\* floor(a * x / CS) for a, x >= 0, by three-digit limbs
MulPos(a, x) ==
  LET a1 == a \div 1000
      a0 == a % 1000
      x1 == x \div 1000
      x0 == x % 1000
  IN  a1 * x1 + ((a1 * x0 + a0 * x1) + ((a0 * x0) \div 1000)) \div 1000

\* a * x on CS-scaled operands, truncated toward zero
MulS(a, x) ==
  IF (a < 0) = (x < 0) THEN MulPos(Abs(a), Abs(x)) ELSE 0 - MulPos(Abs(a), Abs(x))

RECURSIVE Pow10(_)
Pow10(n) == IF n = 0 THEN 1 ELSE 10 * Pow10(n - 1)

\* n decimal digits of r / b for 0 <= r < b
RECURSIVE DivDigits(_, _, _)
DivDigits(r, b, n) ==
  IF n = 0 THEN 0
  ELSE ((r * 10) \div b) * Pow10(n - 1) + DivDigits((r * 10) % b, b, n - 1)

\* a / b on operands of one scale, result CS-scaled, b > 0
DivS(a, b) ==
  LET q == (Abs(a) \div b) * CS + DivDigits(Abs(a) % b, b, 6)
  IN  IF a < 0 THEN 0 - q ELSE q

\* dT / span: dT in TS units, span in whole degrees, result CS-scaled
Ratio(dT, span) ==
  IF dT >= 0 THEN (dT * 100) \div span ELSE 0 - ((0 - dT) * 100) \div span

\* y^n for CS-scaled y in [0, 1], by repeated squaring
RECURSIVE PowN(_, _)
PowN(y, n) ==
  IF n = 0 THEN CS
  ELSE IF n % 2 = 0 THEN LET h == PowN(y, n \div 2) IN MulS(h, h)
  ELSE MulS(y, PowN(y, n - 1))

\* the largest y in lo..hi with y^q <= x
RECURSIVE RootSearch(_, _, _, _)
RootSearch(x, q, lo, hi) ==
  IF lo >= hi THEN lo
  ELSE LET mid == (lo + hi + 1) \div 2
       IN  IF PowN(mid, q) <= x THEN RootSearch(x, q, mid, hi)
           ELSE RootSearch(x, q, lo, mid - 1)

NthRoot(x, q) == IF q = 1 THEN x ELSE RootSearch(x, q, 0, CS)

\* Math.pow(x, p / q) for CS-scaled x in [0, 1]
Pow(x, p, q) == PowN(NthRoot(x, q), p)

\* ------------------------------------------------------------------------
\* Boundary curves c = f(T); T in TS units, result in CS units
\* ------------------------------------------------------------------------

EPS == 10

Deg(d) == d * TS

c_alpha(T) ==
  IF T > Deg(912) THEN 0
  ELSE IF T >= Deg(727) THEN MulS(22000, Ratio(Deg(912) - T, 185))
  ELSE MulS(22000, Pow(Ratio(Max(0, T), 727), 3, 1))

c_a3_closedTop(T) ==
  IF T >= Deg(912) \/ T < Deg(727) THEN 760000
  ELSE MulS(760000, Pow(Ratio(Deg(912) - T, 185), 6, 5))

c_a3(T) ==
  IF T > Deg(912) \/ T < Deg(727) THEN 760000
  ELSE MulS(760000, Pow(Ratio(Deg(912) - T, 185), 6, 5))

c_acm(T) ==
  IF T < Deg(727) THEN 760000
  ELSE IF T > Deg(1147) THEN 2110000
  ELSE 760000 + MulS(2110000 - 760000, Pow(Ratio(T - Deg(727), 420), 7, 5))

c_solidus(T) ==
  IF T < Deg(1147) THEN 2110000
  ELSE IF T > Deg(1495) THEN 170000
  ELSE 170000 + MulS(2110000 - 170000, Pow(Ratio(Deg(1495) - T, 348), 17, 20))

c_liquidus(T) ==
  IF T < Deg(1147) THEN 4300000
  ELSE IF T > Deg(1495) THEN 530000
  ELSE 530000 + MulS(4300000 - 530000, Pow(Ratio(Deg(1495) - T, 348), 17, 20))

c_l_fe3c(T) ==
  IF T < Deg(1147) THEN 4300000
  ELSE 4300000 + MulS(6670000 - 4300000, Ratio(T - Deg(1147), 103))

c_delta_solidus(T) ==
  IF T < Deg(1394) \/ T > Deg(1538) THEN 0
  ELSE IF T >= Deg(1495) THEN MulS(90000, Ratio(Deg(1538) - T, 43))
  ELSE MulS(90000, Ratio(T - Deg(1394), 101))

c_delta_liquidus(T) ==
  IF T < Deg(1495) \/ T > Deg(1538) THEN 0
  ELSE MulS(530000, Ratio(Deg(1538) - T, 43))

\* ------------------------------------------------------------------------
\* State solver
\* ------------------------------------------------------------------------

safeC_noUpper(c) == Max(0, c)

safeC(c) == Max(0, Min(6670000, c))

safeT(T) == Max(0, T)

\* (a / b) * 100 for a >= 0, b > 0 of one scale, to six decimals of a percent
DivPct(a, b) == (a \div b) * PCT + DivDigits(a % b, b, 8)

\* ((safeC - c1) / span) * 100; a quotient beyond +-20 is cut there, far
\* outside the [0, 100] clamp that follows, so that the percentage stays a
\* machine integer
LeverPct(d, span) ==
  IF Abs(d) \div span >= 20 THEN (IF d < 0 THEN 0 - 20 * PCT ELSE 20 * PCT)
  ELSE IF d < 0 THEN 0 - DivPct(0 - d, span)
  ELSE DivPct(d, span)

lever_noSpanGuard(id, name1, name2, c1, c2, sC) ==
  LET span == c2 - c1
      w2 == LeverPct(sC - c1, span)
      w1 == PCT - w2
  IN  [regionId |-> id,
       fractions |->
         IF span <= 0 THEN << [name |-> name1, frac |-> PCT, pos |-> c1] >>
         ELSE << [name |-> name1, frac |-> Max(0, Min(PCT, w1)), pos |-> c1],
                 [name |-> name2, frac |-> Max(0, Min(PCT, w2)), pos |-> c2] >>]

lever_posBulk(id, name1, name2, c1, c2, sC) ==
  LET span == c2 - c1
      w2 == LeverPct(sC - c1, span)
      w1 == PCT - w2
  IN  [regionId |-> id,
       fractions |->
         IF span < EPS THEN << [name |-> name1, frac |-> PCT, pos |-> c1] >>
         ELSE << [name |-> name1, frac |-> Max(0, Min(PCT, w1)), pos |-> c1],
                 [name |-> name2, frac |-> Max(0, Min(PCT, w2)), pos |-> sC] >>]

lever_swapped(id, name1, name2, c1, c2, sC) ==
  LET span == c2 - c1
      w2 == LeverPct(c2 - sC, span)
      w1 == PCT - w2
  IN  [regionId |-> id,
       fractions |->
         IF span < EPS THEN << [name |-> name1, frac |-> PCT, pos |-> c1] >>
         ELSE << [name |-> name1, frac |-> Max(0, Min(PCT, w1)), pos |-> c1],
                 [name |-> name2, frac |-> Max(0, Min(PCT, w2)), pos |-> c2] >>]

lever(id, name1, name2, c1, c2, sC) ==
  LET span == c2 - c1
      w2 == LeverPct(sC - c1, span)
      w1 == PCT - w2
  IN  [regionId |-> id,
       fractions |->
         IF span < EPS THEN << [name |-> name1, frac |-> PCT, pos |-> c1] >>
         ELSE << [name |-> name1, frac |-> Max(0, Min(PCT, w1)), pos |-> c1],
                 [name |-> name2, frac |-> Max(0, Min(PCT, w2)), pos |-> c2] >>]

single_posZero(id, name, sC) ==
  [regionId |-> id, fractions |-> << [name |-> name, frac |-> PCT, pos |-> 0] >>]

single(id, name, sC) ==
  [regionId |-> id, fractions |-> << [name |-> name, frac |-> PCT, pos |-> sC] >>]

c_perit_gamma(sT) == MulS(170000, Ratio(sT - Deg(1394), 101))

\* the band 1495 <= safeT < 1538
classifyDelta(sC, sT) ==
  LET cd_s == c_delta_solidus(sT)
      cd_l == c_delta_liquidus(sT)
  IN  IF sC <= cd_s THEN single("delta", "Delta Ferrite (δ)", sC)
      ELSE IF sC > cd_s /\ sC < cd_l
        THEN lever("delta_L", "Delta Ferrite (δ)", "Liquid", cd_s, cd_l, sC)
      ELSE single("L", "Liquid", sC)

\* the band 1394 <= safeT < 1495
classifyPeritectic(sC, sT) ==
  LET cd_s == c_delta_solidus(sT)
      c_pg == c_perit_gamma(sT)
      c_sol == c_solidus(sT)
      c_liq == c_liquidus(sT)
  IN  IF sC <= cd_s THEN single("delta", "Delta Ferrite (δ)", sC)
      ELSE IF sC > cd_s /\ sC < c_pg
        THEN lever("delta_gamma", "Delta Ferrite (δ)", "Austenite (γ)", cd_s, c_pg, sC)
      ELSE IF sC >= c_pg /\ sC <= c_sol THEN single("gamma", "Austenite (γ)", sC)
      ELSE IF sC > c_sol /\ sC < c_liq
        THEN lever("gamma_L", "Austenite (γ)", "Liquid", c_sol, c_liq, sC)
      ELSE IF sC >= c_liq /\ sC <= c_l_fe3c(sT) THEN single("L", "Liquid", sC)
      ELSE lever("L_Fe3C", "Liquid", "Cementite (Fe₃C)", c_l_fe3c(sT), 6670000, sC)

\* the band 1147 < safeT < 1394
classifyAustenite(sC, sT) ==
  LET c_sol == c_solidus(sT)
      c_liq == c_liquidus(sT)
      c_lf == c_l_fe3c(sT)
  IN  IF sC <= c_sol THEN single("gamma", "Austenite (γ)", sC)
      ELSE IF sC > c_sol /\ sC < c_liq
        THEN lever("gamma_L", "Austenite (γ)", "Liquid", c_sol, c_liq, sC)
      ELSE IF sC >= c_liq /\ sC <= c_lf THEN single("L", "Liquid", sC)
      ELSE lever("L_Fe3C", "Liquid", "Cementite (Fe₃C)", c_lf, 6670000, sC)

\* the band 727 < safeT <= 1147
classifyIntercritical(sC, sT) ==
  LET c_a3_val == c_a3(sT)
      c_acm_val == c_acm(sT)
      c_al == c_alpha(sT)
  IN  IF sC <= c_al THEN single("alpha", "Ferrite (α)", sC)
      ELSE IF sC > c_al /\ sC <= c_a3_val
        THEN lever("alpha_gamma", "Ferrite (α)", "Austenite (γ)", c_al, c_a3_val, sC)
      ELSE IF sC > c_a3_val /\ sC <= c_acm_val THEN single("gamma", "Austenite (γ)", sC)
      ELSE lever("gamma_Fe3C", "Austenite (γ)", "Cementite (Fe₃C)", c_acm_val, 6670000, sC)

\* the band safeT <= 727
classifyFerrite(sC, sT) ==
  LET c_al == c_alpha(sT)
  IN  IF sC <= c_al THEN single("alpha", "Ferrite (α)", sC)
      ELSE lever("alpha_Fe3C", "Ferrite (α)", "Cementite (Fe₃C)", c_al, 6670000, sC)

\* the temperature-banded decision tree: region id and raw fractions
classify_closedEutectic(sC, sT) ==
  IF sT >= Deg(1394) THEN
    IF sT >= Deg(1538) THEN single("L", "Liquid", sC)
    ELSE IF sT >= Deg(1495) THEN classifyDelta(sC, sT)
    ELSE classifyPeritectic(sC, sT)
  ELSE IF sT >= Deg(1147) THEN classifyAustenite(sC, sT)
  ELSE IF sT > Deg(727) THEN classifyIntercritical(sC, sT)
  ELSE classifyFerrite(sC, sT)

classify(sC, sT) ==
  IF sT >= Deg(1394) THEN
    IF sT >= Deg(1538) THEN single("L", "Liquid", sC)
    ELSE IF sT >= Deg(1495) THEN classifyDelta(sC, sT)
    ELSE classifyPeritectic(sC, sT)
  ELSE IF sT > Deg(1147) THEN classifyAustenite(sC, sT)
  ELSE IF sT > Deg(727) THEN classifyIntercritical(sC, sT)
  ELSE classifyFerrite(sC, sT)

RECURSIVE SumFrac(_)
SumFrac(fs) == IF fs = <<>> THEN 0 ELSE Head(fs).frac + SumFrac(Tail(fs))

\* fractions.reduce(...) then the rescaling to a total of 100
renormalize(fs) ==
  LET total == SumFrac(fs)
  IN  IF Abs(total - PCT) > EPS /\ total > 0
      THEN [i \in DOMAIN fs |-> [fs[i] EXCEPT !.frac = DivS(fs[i].frac, total) * 100]]
      ELSE fs

\* 539 - 423 * safeC, in TS units
msTempOf(sC) == Deg(539) - (423 * (sC \div 100) + (423 * (sC % 100)) \div 100)

quenchCond_noMsTest(rate, sC, sT) == rate >= 50 /\ sC < 2000000

quenchCond_noRate(rate, sC, sT) == sC < 2000000 /\ sT < msTempOf(sC)

quenchCond_strictRate(rate, sC, sT) == rate > 50 /\ sC < 2000000 /\ sT < msTempOf(sC)

quenchCond(rate, sC, sT) == rate >= 50 /\ sC < 2000000 /\ sT < msTempOf(sC)

\* Horner form of the series of exp(-v), terms k..n, for CS-scaled v in [0, 1]
RECURSIVE ExpSeries(_, _, _)
ExpSeries(v, k, n) ==
  IF k > n THEN CS ELSE CS - MulS(v, ExpSeries(v, k + 1, n)) \div k

\* Math.exp(-u) for CS-scaled u >= 0: the series on [0, 1], squaring above it
RECURSIVE ExpNeg(_)
ExpNeg(u) ==
  IF u <= CS THEN ExpSeries(u, 1, 12)
  ELSE LET h == ExpNeg(u \div 2) IN MulS(h, h)

\* Koistinen-Marburger fraction, clamped to [0, 1]; d = msTemp - safeT in TS units
martensiteFm_noComplement(d) == Max(0, Min(CS, ExpNeg((11 * d) \div 10)))

martensiteFm(d) == Max(0, Min(CS, CS - ExpNeg((11 * d) \div 10)))

martensiteFractions_sameFrac(sC, sT) ==
  LET fm == martensiteFm(msTempOf(sC) - sT)
  IN  << [name |-> "Martensite (BCT)", frac |-> fm * 100, pos |-> sC],
         [name |-> "Retained Austenite", frac |-> fm * 100, pos |-> sC] >>

martensiteFractions(sC, sT) ==
  LET fm == martensiteFm(msTempOf(sC) - sT)
  IN  << [name |-> "Martensite (BCT)", frac |-> fm * 100, pos |-> sC],
         [name |-> "Retained Austenite", frac |-> (CS - fm) * 100, pos |-> sC] >>

regionLabelOf_leqEutectoid(regionId, sC, isQuenched) ==
  IF isQuenched THEN "Martensitic (Quenched)"
  ELSE IF regionId = "L" THEN "Liquid Melt"
  ELSE IF regionId = "gamma" THEN "Austenite Field (γ)"
  ELSE IF regionId = "alpha" THEN "Ferrite Field (α)"
  ELSE IF regionId = "delta" THEN "Delta Ferrite (δ)"
  ELSE IF regionId = "gamma_L" THEN "Mushy Zone (L + γ)"
  ELSE IF regionId = "delta_L" THEN "Mushy Zone (L + δ)"
  ELSE IF regionId = "delta_gamma" THEN "Two-Phase (δ + γ)"
  ELSE IF regionId = "alpha_gamma" THEN "Intercritical (α + γ)"
  ELSE IF regionId = "gamma_Fe3C"
    THEN (IF sC < 2110000 THEN "Austenite + Cementite" ELSE "Austenite + Ledeburite")
  ELSE IF regionId = "alpha_Fe3C"
    THEN (IF sC <= 760000 THEN "Hypoeutectoid (α + P)"
          ELSE IF Abs(sC - 760000) < 20000 THEN "Eutectoid (Pearlite)"
          ELSE IF sC <= 2110000 THEN "Hypereutectoid (P + Fe₃C)"
          ELSE "Cast Iron (White)")
  ELSE IF regionId = "L_Fe3C" THEN "Liquid + Cementite"
  ELSE "Unknown Region"

regionLabelOf_noDeltaGamma(regionId, sC, isQuenched) ==
  IF isQuenched THEN "Martensitic (Quenched)"
  ELSE IF regionId = "L" THEN "Liquid Melt"
  ELSE IF regionId = "gamma" THEN "Austenite Field (γ)"
  ELSE IF regionId = "alpha" THEN "Ferrite Field (α)"
  ELSE IF regionId = "delta" THEN "Delta Ferrite (δ)"
  ELSE IF regionId = "gamma_L" THEN "Mushy Zone (L + γ)"
  ELSE IF regionId = "delta_L" THEN "Mushy Zone (L + δ)"
  ELSE IF regionId = "alpha_gamma" THEN "Intercritical (α + γ)"
  ELSE IF regionId = "gamma_Fe3C"
    THEN (IF sC < 2110000 THEN "Austenite + Cementite" ELSE "Austenite + Ledeburite")
  ELSE IF regionId = "alpha_Fe3C"
    THEN (IF sC < 760000 THEN "Hypoeutectoid (α + P)"
          ELSE IF Abs(sC - 760000) < 20000 THEN "Eutectoid (Pearlite)"
          ELSE IF sC <= 2110000 THEN "Hypereutectoid (P + Fe₃C)"
          ELSE "Cast Iron (White)")
  ELSE IF regionId = "L_Fe3C" THEN "Liquid + Cementite"
  ELSE "Unknown Region"

regionLabelOf(regionId, sC, isQuenched) ==
  IF isQuenched THEN "Martensitic (Quenched)"
  ELSE IF regionId = "L" THEN "Liquid Melt"
  ELSE IF regionId = "gamma" THEN "Austenite Field (γ)"
  ELSE IF regionId = "alpha" THEN "Ferrite Field (α)"
  ELSE IF regionId = "delta" THEN "Delta Ferrite (δ)"
  ELSE IF regionId = "gamma_L" THEN "Mushy Zone (L + γ)"
  ELSE IF regionId = "delta_L" THEN "Mushy Zone (L + δ)"
  ELSE IF regionId = "delta_gamma" THEN "Two-Phase (δ + γ)"
  ELSE IF regionId = "alpha_gamma" THEN "Intercritical (α + γ)"
  ELSE IF regionId = "gamma_Fe3C"
    THEN (IF sC < 2110000 THEN "Austenite + Cementite" ELSE "Austenite + Ledeburite")
  ELSE IF regionId = "alpha_Fe3C"
    THEN (IF sC < 760000 THEN "Hypoeutectoid (α + P)"
          ELSE IF Abs(sC - 760000) < 20000 THEN "Eutectoid (Pearlite)"
          ELSE IF sC <= 2110000 THEN "Hypereutectoid (P + Fe₃C)"
          ELSE "Cast Iron (White)")
  ELSE IF regionId = "L_Fe3C" THEN "Liquid + Cementite"
  ELSE "Unknown Region"

\* Math.round of v / scale, for an even scale
Round(v, scale) == (v + scale \div 2) \div scale

FerriteNames == {"Ferrite (α)", "Delta Ferrite (δ)"}
CementiteNames == {"Cementite (Fe₃C)"}

\* fractions.find(f => f.name.includes(...))?.frac / 100 || 0; the result is
\* the phase fraction with eight decimals, which is the percentage as stored
RECURSIVE FindFrac(_, _)
FindFrac(fs, names) ==
  IF fs = <<>> THEN 0
  ELSE IF Head(fs).name \in names THEN Head(fs).frac
  ELSE FindFrac(Tail(fs), names)

microOf(c) ==
  IF c < 20000 THEN "Equiaxed Ferrite"
  ELSE IF Abs(c - 760000) < 20000 THEN "100% Pearlite (Lamellar)"
  ELSE IF c < 760000 THEN "Proeutectoid Ferrite + Pearlite"
  ELSE IF c <= 2110000 THEN "Proeutectoid Cementite Network + Pearlite"
  ELSE IF Abs(c - 4300000) < 50000 THEN "Ledeburite (Eutectic)"
  ELSE "Primary Cementite + Transformed Ledeburite"

\* c in CS units, T in TS units; yield, uts, hardness, elong are integers
predictProperties_softMartensite(c, T, fractions, isQuenched) ==
  IF T > Deg(1495) THEN
    [micro |-> "Uniform Liquid", crystal |-> "Amorphous",
     yield |-> 0, uts |-> 0, hardness |-> 0, elong |-> 100]
  ELSE IF isQuenched THEN
    LET yieldStr == 1000 * TS + 20 * c
        hardness == 200 * TS + 5 * c
        uts == 11 * yieldStr + 4 * hardness
        elong == Max(CS, 15 * CS - 15 * c)
    IN  [micro |-> IF c < 600000 THEN "Lath Martensite" ELSE "Plate Martensite",
         crystal |-> "Body-Centered Tetragonal (BCT)",
         yield |-> Round(yieldStr, TS), uts |-> Round(uts, 10 * TS),
         hardness |-> Round(hardness, TS), elong |-> Round(elong, CS)]
  ELSE IF T > Deg(727) THEN
    [micro |-> "Austenitic / High Temp phases", crystal |-> "FCC Dominant",
     yield |-> 50, uts |-> 120, hardness |-> 40, elong |-> 45]
  ELSE
    LET fAlpha == FindFrac(fractions, FerriteNames)
        fFe3C == FindFrac(fractions, CementiteNames)
        yieldStr == (3 * fAlpha) \div 2 + 12 * fFe3C
        hardness == (4 * fAlpha) \div 5 + 8 * fFe3C
        uts == yieldStr + 7 * (yieldStr \div 20) + hardness \div 2
        elong == Max(CS, (2 * fAlpha) \div 5 + fFe3C \div 50)
    IN  [micro |-> microOf(c), crystal |-> "BCC + Orthorhombic",
         yield |-> Round(yieldStr, CS), uts |-> Round(uts, CS),
         hardness |-> Round(hardness, CS), elong |-> Round(elong, CS)]

predictProperties_softCementite(c, T, fractions, isQuenched) ==
  IF T > Deg(1495) THEN
    [micro |-> "Uniform Liquid", crystal |-> "Amorphous",
     yield |-> 0, uts |-> 0, hardness |-> 0, elong |-> 100]
  ELSE IF isQuenched THEN
    LET yieldStr == 1000 * TS + 20 * c
        hardness == 300 * TS + 5 * c
        uts == 11 * yieldStr + 4 * hardness
        elong == Max(CS, 15 * CS - 15 * c)
    IN  [micro |-> IF c < 600000 THEN "Lath Martensite" ELSE "Plate Martensite",
         crystal |-> "Body-Centered Tetragonal (BCT)",
         yield |-> Round(yieldStr, TS), uts |-> Round(uts, 10 * TS),
         hardness |-> Round(hardness, TS), elong |-> Round(elong, CS)]
  ELSE IF T > Deg(727) THEN
    [micro |-> "Austenitic / High Temp phases", crystal |-> "FCC Dominant",
     yield |-> 50, uts |-> 120, hardness |-> 40, elong |-> 45]
  ELSE
    LET fAlpha == FindFrac(fractions, FerriteNames)
        fFe3C == FindFrac(fractions, CementiteNames)
        yieldStr == (3 * fAlpha) \div 2 + (6 * fFe3C) \div 5
        hardness == (4 * fAlpha) \div 5 + 8 * fFe3C
        uts == yieldStr + 7 * (yieldStr \div 20) + hardness \div 2
        elong == Max(CS, (2 * fAlpha) \div 5 + fFe3C \div 50)
    IN  [micro |-> microOf(c), crystal |-> "BCC + Orthorhombic",
         yield |-> Round(yieldStr, CS), uts |-> Round(uts, CS),
         hardness |-> Round(hardness, CS), elong |-> Round(elong, CS)]

predictProperties_above1538(c, T, fractions, isQuenched) ==
  IF T > Deg(1538) THEN
    [micro |-> "Uniform Liquid", crystal |-> "Amorphous",
     yield |-> 0, uts |-> 0, hardness |-> 0, elong |-> 100]
  ELSE IF isQuenched THEN
    LET yieldStr == 1000 * TS + 20 * c
        hardness == 300 * TS + 5 * c
        uts == 11 * yieldStr + 4 * hardness
        elong == Max(CS, 15 * CS - 15 * c)
    IN  [micro |-> IF c < 600000 THEN "Lath Martensite" ELSE "Plate Martensite",
         crystal |-> "Body-Centered Tetragonal (BCT)",
         yield |-> Round(yieldStr, TS), uts |-> Round(uts, 10 * TS),
         hardness |-> Round(hardness, TS), elong |-> Round(elong, CS)]
  ELSE IF T > Deg(727) THEN
    [micro |-> "Austenitic / High Temp phases", crystal |-> "FCC Dominant",
     yield |-> 50, uts |-> 120, hardness |-> 40, elong |-> 45]
  ELSE
    LET fAlpha == FindFrac(fractions, FerriteNames)
        fFe3C == FindFrac(fractions, CementiteNames)
        \* all four CS-scaled; a fraction f (eight decimals) times k is f * k / 100
        yieldStr == (3 * fAlpha) \div 2 + 12 * fFe3C
        hardness == (4 * fAlpha) \div 5 + 8 * fFe3C
        uts == yieldStr + 7 * (yieldStr \div 20) + hardness \div 2
        elong == Max(CS, (2 * fAlpha) \div 5 + fFe3C \div 50)
    IN  [micro |-> microOf(c), crystal |-> "BCC + Orthorhombic",
         yield |-> Round(yieldStr, CS), uts |-> Round(uts, CS),
         hardness |-> Round(hardness, CS), elong |-> Round(elong, CS)]

predictProperties(c, T, fractions, isQuenched) ==
  IF T > Deg(1495) THEN
    [micro |-> "Uniform Liquid", crystal |-> "Amorphous",
     yield |-> 0, uts |-> 0, hardness |-> 0, elong |-> 100]
  ELSE IF isQuenched THEN
    LET yieldStr == 1000 * TS + 20 * c          \* TS-scaled
        hardness == 300 * TS + 5 * c            \* TS-scaled
        uts == 11 * yieldStr + 4 * hardness     \* scaled by 10 * TS
        elong == Max(CS, 15 * CS - 15 * c)      \* CS-scaled
    IN  [micro |-> IF c < 600000 THEN "Lath Martensite" ELSE "Plate Martensite",
         crystal |-> "Body-Centered Tetragonal (BCT)",
         yield |-> Round(yieldStr, TS), uts |-> Round(uts, 10 * TS),
         hardness |-> Round(hardness, TS), elong |-> Round(elong, CS)]
  ELSE IF T > Deg(727) THEN
    [micro |-> "Austenitic / High Temp phases", crystal |-> "FCC Dominant",
     yield |-> 50, uts |-> 120, hardness |-> 40, elong |-> 45]
  ELSE
    LET fAlpha == FindFrac(fractions, FerriteNames)
        fFe3C == FindFrac(fractions, CementiteNames)
        \* all four CS-scaled; a fraction f (eight decimals) times k is f * k / 100
        yieldStr == (3 * fAlpha) \div 2 + 12 * fFe3C
        hardness == (4 * fAlpha) \div 5 + 8 * fFe3C
        uts == yieldStr + 7 * (yieldStr \div 20) + hardness \div 2
        elong == Max(CS, (2 * fAlpha) \div 5 + fFe3C \div 50)
    IN  [micro |-> microOf(c), crystal |-> "BCC + Orthorhombic",
         yield |-> Round(yieldStr, CS), uts |-> Round(uts, CS),
         hardness |-> Round(hardness, CS), elong |-> Round(elong, CS)]

\* the quench override of the region id
finalRegionId_keepEq(isQuenched, eqId) == eqId

finalRegionId(isQuenched, eqId) == IF isQuenched THEN "martensite" ELSE eqId

\* msTemp of the returned record: <<>> stands for null, <<m>> for the number m
msTempField_leq(sC) == IF sC <= 2000000 THEN << msTempOf(sC) >> ELSE <<>>

msTempField(sC) == IF sC < 2000000 THEN << msTempOf(sC) >> ELSE <<>>

getState(c, T, rate) ==
  LET sC == safeC(c)
      sT == safeT(T)
      eq == classify(sC, sT)
      eqFractions == renormalize(eq.fractions)
      isQuenched == quenchCond(rate, sC, sT)
      regionId == finalRegionId(isQuenched, eq.regionId)
      fractions == IF isQuenched THEN martensiteFractions(sC, sT) ELSE eqFractions
      props == predictProperties(sC, sT, fractions, isQuenched)
  IN  [regionId |-> regionId,
       regionLabel |-> regionLabelOf(regionId, sC, isQuenched),
       fractions |-> fractions,
       isQuenched |-> isQuenched,
       msTemp |-> msTempField(sC),
       micro |-> props.micro, crystal |-> props.crystal,
       yield |-> props.yield, uts |-> props.uts,
       hardness |-> props.hardness, elong |-> props.elong]

\* ------------------------------------------------------------------------
\* Calls of the solver and of the curve library
\* ------------------------------------------------------------------------

VARIABLES argC, argT, argRate, ret, curves

\* the state of the App component: its useState cells, the interval of the
\* cooling effect with the values its closure captured, the dependency
\* values the effects last ran with, and the number of user events so far
VARIABLES carbon, temp, tempInexact, mode, coolingRate, zoomSteel, isDragging,
          historyTrail, timer, depMode, depCarbon, userActs

vars == <<argC, argT, argRate, ret, curves>>

appVars ==
  <<carbon, temp, tempInexact, mode, coolingRate, zoomSteel, isDragging,
    historyTrail, timer, depMode, depCarbon, userActs>>

None == <<>>

\* carbon, temperature and cooling rate are drawn from a grid that overshoots
\* the diagram on both sides, and from the anchor points of the diagram
MaxCarbonIdx == 14
MaxTempIdx == 16
MaxRateIdx == 3

CarbonStep == CS \div 2
TempStep == Deg(100)
RateStep == 5 * 10

CarbonAnchors ==
  {0 - 5 * CS, 2, 10000, 70000, 333667, 400000, 410000, 450000, 750000,
   760000, 770000, 1270000, 2110000, 4300000, 6670000, 10 * CS}

TempAnchors ==
  {Deg(20), 3697000, 3698000, Deg(727), Deg(750), Deg(912), Deg(1147),
   Deg(1250) - 3, Deg(1394), Deg(1450), Deg(1495), Deg(1520), Deg(1538) - 5,
   Deg(1538)}

RateAnchors == {2, 10, 49}

CarbonInputs == {i * CarbonStep : i \in (0 - 1)..MaxCarbonIdx} \cup CarbonAnchors
TempInputs == {i * TempStep : i \in (0 - 1)..MaxTempIdx} \cup TempAnchors
RateInputs == {i * RateStep : i \in 0..MaxRateIdx} \cup RateAnchors

\* app temperatures count thirds of the solver's unit, so that the slowed
\* drop of normalizing, 10 / 3, is a whole number of units
TU == 3 * TS
AppDeg(d) == d * TU

\* the App component after construction and its first effects: the useState
\* initial values, no interval, an empty trail
AppMounted ==
  /\ carbon = 400000
  /\ temp = AppDeg(1600)
  /\ tempInexact = FALSE
  /\ mode = "manual"
  /\ coolingRate = 0
  /\ zoomSteel = FALSE
  /\ isDragging = FALSE
  /\ historyTrail = <<>>
  /\ timer = None
  /\ depMode = "manual"
  /\ depCarbon = 400000
  /\ userActs = 0

Init ==
  /\ argC \in CarbonInputs
  /\ argT \in TempInputs
  /\ argRate \in RateInputs
  /\ ret = None
  /\ curves = None
  /\ AppMounted

\* one call per behaviour: either the solver or the curve library
Idle == ret = None /\ curves = None

\* ThermoEngine.getState(carbon, temp, coolingRate)
GetState ==
  /\ Idle
  /\ ret' = getState(argC, argT, argRate)
  /\ UNCHANGED <<argC, argT, argRate, curves>>
  /\ UNCHANGED appVars

\* the eight boundary curves sampled at one temperature
SampleCurves ==
  /\ Idle
  /\ curves' = [c_alpha |-> c_alpha(argT), c_a3 |-> c_a3(argT), c_acm |-> c_acm(argT),
                c_solidus |-> c_solidus(argT), c_liquidus |-> c_liquidus(argT),
                c_l_fe3c |-> c_l_fe3c(argT), c_delta_solidus |-> c_delta_solidus(argT),
                c_delta_liquidus |-> c_delta_liquidus(argT)]
  /\ UNCHANGED <<argC, argT, argRate, ret>>
  /\ UNCHANGED appVars

Next == GetState \/ SampleCurves

Spec == Init /\ [][Next]_vars


\* ------------------------------------------------------------------------
\* The App component: user events, the cooling interval and the effects
\* ------------------------------------------------------------------------

\* a behaviour holds at most this many user events
MaxUserActions == 2

PRESETS == <<0, 200000, 450000, 760000, 950000, 3000000>>

CoolingModes == {"anneal", "normalize", "quench"}

\* rates[mode] of the cooling effect
rates(m) == IF m = "anneal" THEN 2 ELSE IF m = "normalize" THEN 10 ELSE 150

\* maxC = zoomSteel ? 2.5 : 6.67, also the upper clamp of stepCarbon and the
\* max of the carbon slider
maxC_noZoom(zoom) == 6670000

maxC(zoom) == IF zoom THEN 2500000 ELSE 6670000

\* useMemo(() => ThermoEngine.getState(carbon, temp, coolingRate))
simState == getState(carbon, temp \div 3, coolingRate)

\* the clamp of getDiagramCoordsFromEvent, applied to the diagram point
\* <<c, t>> that the pointer position maps to
getDiagramCoordsFromEvent(p) ==
  [c |-> Max(0, Min(maxC(zoomSteel), p[1])),
   t |-> Max(0, Min(AppDeg(1600), p[2]))]

\* the values the user enters: pointer positions inside and outside the
\* diagram, typed and slid carbon contents and temperatures
PointerPoints == {<<3200000, AppDeg(300)>>, <<0 - 500000, AppDeg(1700)>>}
CarbonTyped == {CS, 3 * CS}
CarbonSlid == {2 * CS, 6 * CS}
TempTyped == {0 - AppDeg(5), AppDeg(21), AppDeg(300)}
TempSlid == {AppDeg(1000)}

\* during a cooling run the user acts at one of these temperatures
ActTemps ==
  {AppDeg(1600), AppDeg(1450), AppDeg(730), AppDeg(250), AppDeg(100), AppDeg(22)}

\* an effect is due when one of its dependencies changed since it last ran;
\* React runs the due effects before it handles the next event or timer
Pending == mode # depMode \/ carbon # depCarbon

UserMayAct ==
  /\ userActs < MaxUserActions
  /\ ~Pending
  /\ (mode = "manual" \/ temp \in ActTemps)

handlePointerDown ==
  /\ UserMayAct
  /\ \E p \in PointerPoints :
       /\ carbon' = getDiagramCoordsFromEvent(p).c
       /\ temp' = getDiagramCoordsFromEvent(p).t
  /\ tempInexact' = FALSE
  /\ isDragging' = TRUE
  /\ mode' = "manual"
  /\ userActs' = userActs + 1
  /\ UNCHANGED <<coolingRate, zoomSteel, historyTrail, timer, depMode, depCarbon>>
  /\ UNCHANGED vars

handlePointerMove ==
  /\ UserMayAct
  /\ isDragging
  /\ \E p \in PointerPoints :
       /\ carbon' = getDiagramCoordsFromEvent(p).c
       /\ temp' = getDiagramCoordsFromEvent(p).t
  /\ tempInexact' = FALSE
  /\ userActs' = userActs + 1
  /\ UNCHANGED <<mode, coolingRate, zoomSteel, isDragging, historyTrail, timer,
                 depMode, depCarbon>>
  /\ UNCHANGED vars

\* onPointerUp and onPointerLeave
handlePointerUp ==
  /\ UserMayAct
  /\ isDragging' = FALSE
  /\ userActs' = userActs + 1
  /\ UNCHANGED <<carbon, temp, tempInexact, mode, coolingRate, zoomSteel,
                 historyTrail, timer, depMode, depCarbon>>
  /\ UNCHANGED vars

stepCarbon ==
  /\ UserMayAct
  /\ \E dir \in {0 - 1, 1} :
       carbon' = Max(0, Min(maxC(zoomSteel), carbon + dir * 10000))
  /\ mode' = "manual"
  /\ userActs' = userActs + 1
  /\ UNCHANGED <<temp, tempInexact, coolingRate, zoomSteel, isDragging,
                 historyTrail, timer, depMode, depCarbon>>
  /\ UNCHANGED vars

stepTemp ==
  /\ UserMayAct
  /\ \E dir \in {0 - 1, 1} :
       /\ temp' = Max(0, Min(AppDeg(1600), temp + dir * AppDeg(5)))
       /\ tempInexact' = (tempInexact /\ temp' = temp + dir * AppDeg(5))
  /\ mode' = "manual"
  /\ userActs' = userActs + 1
  /\ UNCHANGED <<carbon, coolingRate, zoomSteel, isDragging, historyTrail, timer,
                 depMode, depCarbon>>
  /\ UNCHANGED vars

toggleZoom ==
  /\ UserMayAct
  /\ zoomSteel' = ~zoomSteel
  /\ carbon' = IF ~zoomSteel /\ carbon > 2500000 THEN 2500000 ELSE carbon
  /\ userActs' = userActs + 1
  /\ UNCHANGED <<temp, tempInexact, mode, coolingRate, isDragging, historyTrail,
                 timer, depMode, depCarbon>>
  /\ UNCHANGED vars

\* onClick of a preset button
PresetClick ==
  /\ UserMayAct
  /\ \E i \in DOMAIN PRESETS :
       /\ carbon' = PRESETS[i]
       /\ zoomSteel' = IF PRESETS[i] > 2500000 /\ zoomSteel THEN FALSE ELSE zoomSteel
  /\ mode' = "manual"
  /\ userActs' = userActs + 1
  /\ UNCHANGED <<temp, tempInexact, coolingRate, isDragging, historyTrail, timer,
                 depMode, depCarbon>>
  /\ UNCHANGED vars

\* onChange of the carbon number input
CarbonInput ==
  /\ UserMayAct
  /\ \E v \in CarbonTyped :
       /\ carbon' = v
       /\ zoomSteel' = IF v > 2500000 /\ zoomSteel THEN FALSE ELSE zoomSteel
  /\ userActs' = userActs + 1
  /\ UNCHANGED <<temp, tempInexact, mode, coolingRate, isDragging, historyTrail,
                 timer, depMode, depCarbon>>
  /\ UNCHANGED vars

\* onChange of the carbon slider, whose range ends at maxC
CarbonSlider ==
  /\ UserMayAct
  /\ \E v \in CarbonSlid :
       /\ v <= maxC(zoomSteel)
       /\ carbon' = v
  /\ userActs' = userActs + 1
  /\ UNCHANGED <<temp, tempInexact, mode, coolingRate, zoomSteel, isDragging,
                 historyTrail, timer, depMode, depCarbon>>
  /\ UNCHANGED vars

\* onChange of the temperature number input
TempInput ==
  /\ UserMayAct
  /\ \E v \in TempTyped : temp' = v
  /\ tempInexact' = FALSE
  /\ userActs' = userActs + 1
  /\ UNCHANGED <<carbon, mode, coolingRate, zoomSteel, isDragging, historyTrail,
                 timer, depMode, depCarbon>>
  /\ UNCHANGED vars

\* onChange of the temperature slider
TempSlider ==
  /\ UserMayAct
  /\ \E v \in TempSlid : temp' = v
  /\ tempInexact' = FALSE
  /\ mode' = "manual"
  /\ userActs' = userActs + 1
  /\ UNCHANGED <<carbon, coolingRate, zoomSteel, isDragging, historyTrail, timer,
                 depMode, depCarbon>>
  /\ UNCHANGED vars

\* onClick of the Anneal, Norm. and Quench buttons
ModeButton ==
  /\ UserMayAct
  /\ \E m \in CoolingModes : mode' = IF mode = m THEN "manual" ELSE m
  /\ userActs' = userActs + 1
  /\ UNCHANGED <<carbon, temp, tempInexact, coolingRate, zoomSteel, isDragging,
                 historyTrail, timer, depMode, depCarbon>>
  /\ UNCHANGED vars

\* the temperatures a tick compares with
Thresholds == {AppDeg(20), AppDeg(700), AppDeg(740), AppDeg(1130), AppDeg(1160)}

\* the temperature as the comparisons of a tick see it: a temperature that
\* went through a drop of 10 / 3 carries the rounding error of the doubles,
\* so on a threshold it may compare as above or as below
seenTemp(up) ==
  IF tempInexact /\ temp \in Thresholds
  THEN (IF up THEN temp + 1 ELSE temp - 1)
  ELSE temp

\* currentDrop of a tick in mode m at temperature t
currentDrop_stall(m, t) ==
  IF /\ m \in {"anneal", "normalize"}
     /\ \/ (t > AppDeg(700) /\ t < AppDeg(740))
        \/ (t > AppDeg(1130) /\ t < AppDeg(1160))
  THEN 0
  ELSE rates(m) * TU

currentDrop(m, t) ==
  IF /\ m \in {"anneal", "normalize"}
     /\ \/ (t > AppDeg(700) /\ t < AppDeg(740))
        \/ (t > AppDeg(1130) /\ t < AppDeg(1160))
  THEN Max(TU, (rates(m) * TU) \div 3)
  ELSE rates(m) * TU

\* prev.slice(-n)
LastN(seq, n) == IF Len(seq) <= n THEN seq ELSE SubSeq(seq, Len(seq) - n + 1, Len(seq))

\* the callback of setInterval, with the mode and carbon its closure captured
Tick ==
  /\ timer # None
  /\ ~Pending
  /\ \E up \in BOOLEAN :
       LET t == seenTemp(up)
           nextT == temp - currentDrop(timer[1], t)
       IN  IF t <= AppDeg(20)
           THEN /\ mode' = "manual"
                /\ coolingRate' = 0
                /\ temp' = AppDeg(20)
                /\ tempInexact' = FALSE
                /\ UNCHANGED historyTrail
           ELSE /\ temp' = nextT
                /\ tempInexact' = (tempInexact \/ currentDrop(timer[1], t) % TU # 0)
                /\ historyTrail' =
                     Append(LastN(historyTrail, 30), [c |-> timer[2], t |-> nextT])
                /\ UNCHANGED <<mode, coolingRate>>
  /\ UNCHANGED <<carbon, zoomSteel, isDragging, timer, depMode, depCarbon, userActs>>
  /\ UNCHANGED vars

\* the two effects after a commit that changed mode or carbon: the cleanup
\* and body of the cooling effect, and the trail reset when mode changed
RunEffects ==
  /\ Pending
  /\ IF mode \in CoolingModes
     THEN coolingRate' = rates(mode) /\ timer' = <<mode, carbon>>
     ELSE coolingRate' = 0 /\ timer' = None
  /\ historyTrail' = IF mode # depMode /\ mode = "manual" THEN <<>> ELSE historyTrail
  /\ depMode' = mode
  /\ depCarbon' = carbon
  /\ UNCHANGED <<carbon, temp, tempInexact, mode, zoomSteel, isDragging, userActs>>
  /\ UNCHANGED vars

AppInit ==
  /\ AppMounted
  /\ argC = 0
  /\ argT = 0
  /\ argRate = 0
  /\ ret = None
  /\ curves = None

AppNext ==
  \/ handlePointerDown
  \/ handlePointerMove
  \/ handlePointerUp
  \/ stepCarbon
  \/ stepTemp
  \/ toggleZoom
  \/ PresetClick
  \/ CarbonInput
  \/ CarbonSlider
  \/ TempInput
  \/ TempSlider
  \/ ModeButton
  \/ Tick
  \/ RunEffects

allVars == <<vars, appVars>>

AppSpec == AppInit /\ [][AppNext]_allVars

\* setInterval keeps firing every 50 ms and React always runs the due effects
AppLive == AppSpec /\ WF_allVars(Tick) /\ WF_allVars(RunEffects)


\* ------------------------------------------------------------------------
\* Properties
\* ------------------------------------------------------------------------

Called == ret # None

\* the clamped inputs, written out independently of safeC and safeT
ClampedC == IF argC < 0 THEN 0 ELSE IF argC > 6670000 THEN 6670000 ELSE argC
ClampedT == IF argT < 0 THEN 0 ELSE argT

\* rate >= 50, carbon < 2.0 and temperature < 539 - 423 * carbon, on the
\* clamped inputs (both sides of the last comparison in CS units)
QuenchExpected ==
  /\ argRate >= 50
  /\ ClampedC < 2 * CS
  /\ ClampedT * 100 < 539 * CS - 423 * ClampedC

EquilibriumIds ==
  {"L", "delta", "delta_L", "delta_gamma", "gamma", "gamma_L", "L_Fe3C",
   "alpha", "alpha_gamma", "gamma_Fe3C", "alpha_Fe3C"}

EquilibriumNames ==
  {"Liquid", "Delta Ferrite (δ)", "Austenite (γ)", "Ferrite (α)", "Cementite (Fe₃C)"}

\* C1: the frac values of the fractions returned by getState sum to 100
\* (within 1e-6), for equilibrium regions and for the martensite override.
C1_Normalization ==
  Called => Abs(SumFrac(ret.fractions) - PCT) <= 1

\* a quenched result with both martensite and retained austenite present
C1_Witness ==
  /\ Called
  /\ ret.isQuenched
  /\ Len(ret.fractions) = 2
  /\ ret.fractions[1].frac > 0
  /\ ret.fractions[2].frac > 0

\* C2: getState(c, T, r) returns the same state as
\* getState(min(6.67, max(0, c)), max(0, T), r).
C2_DomainSaturation ==
  Called => ret = getState(ClampedC, ClampedT, argRate)

\* carbon 10 at a negative temperature: the result is that of (6.67, 0)
C2_Witness ==
  /\ Called
  /\ argC = 10 * CS
  /\ argT < 0
  /\ ret.fractions[2].pos = 6670000

\* C3: getState always returns a region id of the fixed set, one or two
\* fractions, and a region label other than the fallback.
C3_Total ==
  Called =>
    /\ ret.regionId \in EquilibriumIds \cup {"martensite"}
    /\ Len(ret.fractions) \in {1, 2}
    /\ ret.regionLabel # "Unknown Region"

\* a result in the delta + gamma field, the last label of the chain to be hit
C3_Witness ==
  /\ Called
  /\ ret.regionId = "delta_gamma"
  /\ ret.regionLabel = "Two-Phase (δ + γ)"

\* C4: isQuenched is true exactly when rate >= 50, clamped carbon < 2.0 and
\* clamped temperature < 539 - 423 * carbon; (0.4, 100, 10) and (2.5, 100, 150)
\* are not quenched, (0.4, 100, 150) is.
C4_QuenchGating ==
  Called =>
    /\ ret.isQuenched <=> QuenchExpected
    /\ (argC = 400000 /\ argT = Deg(100) /\ argRate = 10) => ~ret.isQuenched
    /\ (argC = 400000 /\ argT = Deg(100) /\ argRate = 150) => ret.isQuenched
    /\ (argC = 2500000 /\ argT = Deg(100) /\ argRate = 150) => ~ret.isQuenched

\* the quench threshold itself: rate exactly 50 below Ms
C4_Witness ==
  /\ Called
  /\ argRate = 50
  /\ argC = 400000
  /\ argT = Deg(100)
  /\ ret.isQuenched

\* C5: when the quench condition holds the result is the martensite region
\* with exactly [Martensite fm*100, Retained Austenite (1-fm)*100], fm in
\* [0, 1], both at the clamped bulk carbon; nothing of the equilibrium
\* classification survives.
C5_MartensiteOverride ==
  (Called /\ QuenchExpected) =>
    /\ ret.regionId = "martensite"
    /\ ret.regionId \notin EquilibriumIds
    /\ Len(ret.fractions) = 2
    /\ ret.fractions[1].name = "Martensite (BCT)"
    /\ ret.fractions[2].name = "Retained Austenite"
    /\ \A i \in 1..2 : ret.fractions[i].name \notin EquilibriumNames
    /\ \A i \in 1..2 : ret.fractions[i].pos = ClampedC
    /\ ret.fractions[1].frac >= 0
    /\ ret.fractions[1].frac <= PCT
    /\ ret.fractions[2].frac = PCT - ret.fractions[1].frac

\* a quench of a point whose equilibrium region is alpha + Fe3C
C5_Witness ==
  /\ Called
  /\ QuenchExpected
  /\ argC = CS
  /\ classify(ClampedC, ClampedT).regionId = "alpha_Fe3C"
  /\ ret.regionId = "martensite"


SinglePhaseIds == {"L", "gamma", "alpha", "delta"}

TwoPhaseIds ==
  {"delta_L", "delta_gamma", "gamma_L", "L_Fe3C", "alpha_gamma", "gamma_Fe3C",
   "alpha_Fe3C", "martensite"}

\* C6: a state of a single-phase region has exactly one fraction and a state
\* of a two-phase region has exactly two.
C6_FractionCount ==
  Called =>
    /\ (ret.regionId \in SinglePhaseIds => Len(ret.fractions) = 1)
    /\ (ret.regionId \in TwoPhaseIds => Len(ret.fractions) = 2)

Sampled == curves # None

Near(a, b, tol) == Abs(a - b) <= tol

\* 1e-3 wt% carbon
Tol3 == CS \div 1000

ContinuityBelow1495 ==
  /\ (argT = Deg(912) => Near(curves.c_a3, curves.c_alpha, Tol3))
  /\ (argT = Deg(727) =>
        /\ Near(curves.c_a3, curves.c_acm, Tol3)
        /\ Near(curves.c_a3, 760000, Tol3))
  /\ (argT = Deg(1147) =>
        /\ Near(curves.c_acm, curves.c_solidus, Tol3)
        /\ Near(curves.c_acm, 2110000, Tol3)
        /\ Near(curves.c_liquidus, curves.c_l_fe3c, Tol3)
        /\ Near(curves.c_liquidus, 4300000, Tol3))

\* C7 as stated: adjacent curves agree within 1e-3 at 912, 727 and 1147, and
\* at 1495 the solidus, liquidus, delta-solidus and delta-liquidus all meet.
C7_AllMeetAt1495 ==
  Sampled =>
    /\ ContinuityBelow1495
    /\ (argT = Deg(1495) =>
          /\ Near(curves.c_solidus, curves.c_liquidus, Tol3)
          /\ Near(curves.c_liquidus, curves.c_delta_liquidus, Tol3)
          /\ Near(curves.c_delta_liquidus, curves.c_delta_solidus, Tol3)
          /\ Near(curves.c_delta_solidus, curves.c_solidus, Tol3))

\* C7 amended: adjacent curves agree within 1e-3 at 912, 727 and 1147; at 1495
\* the liquidus and the delta-liquidus meet at 0.53, while the solidus is at
\* 0.17 and the delta-solidus at 0.09.
C7_BoundaryContinuity ==
  Sampled =>
    /\ ContinuityBelow1495
    /\ (argT = Deg(1495) =>
          /\ Near(curves.c_liquidus, curves.c_delta_liquidus, Tol3)
          /\ Near(curves.c_liquidus, 530000, Tol3)
          /\ Near(curves.c_solidus, 170000, Tol3)
          /\ Near(curves.c_delta_solidus, 90000, Tol3))

\* the curves sampled at the A3 point, where c_a3 and c_alpha both reach 0
C7_Witness ==
  /\ Sampled
  /\ argT = Deg(912)
  /\ curves.c_a3 = 0
  /\ curves.c_alpha = 0

PureFerrite ==
  /\ Len(ret.fractions) = 1
  /\ ret.fractions[1].name = "Ferrite (α)"
  /\ ret.fractions[1].frac = PCT

\* C8 as stated: carbon 0 at T = 500 gives one fraction, Ferrite at 100, for
\* any cooling rate.
C8_PureFerriteAnyRate ==
  (Called /\ argC = 0 /\ argT = Deg(500)) => PureFerrite

\* C8 amended: carbon 0 at T = 500 gives one fraction, Ferrite at 100, for
\* every cooling rate below 50; from rate 50 on the martensite override applies.
C8_PureFerrite ==
  (Called /\ argC = 0 /\ argT = Deg(500)) =>
    /\ (argRate < 50 => PureFerrite)
    /\ (argRate >= 50 => ret.regionId = "martensite")

\* pure iron at 500 degrees under a slow, non-zero cooling rate
C8_Witness ==
  /\ Called
  /\ argC = 0
  /\ argT = Deg(500)
  /\ argRate = 49
  /\ ret.regionId = "alpha"

\* one percentage point
OnePct == CS

\* C9 as stated: at T = 750 the tie line runs from 0.022 to 0.76 and
\* getState(0.41, 750, 0) returns two fractions of 50 +- 1 each.
C9_MidpointOfAnchors ==
  (Called /\ argC = 410000 /\ argT = Deg(750) /\ argRate = 0) =>
    /\ Len(ret.fractions) = 2
    /\ Near(ret.fractions[1].pos, 22000, Tol3)
    /\ Near(ret.fractions[2].pos, 760000, Tol3)
    /\ Near(ret.fractions[1].frac, 50 * CS, OnePct)
    /\ Near(ret.fractions[2].frac, 50 * CS, OnePct)

\* C9 amended: at T = 750 the tie line of alpha + gamma runs from
\* c_alpha(750) = 0.0193 to c_a3(750) = 0.6481; the carbon midway between
\* them (0.3337) gives 50 +- 1 each, and getState(0.41, 750, 0) gives
\* ferrite 37.9 +- 1 and austenite 62.1 +- 1.
C9_LeverLinearity ==
  (Called /\ argT = Deg(750) /\ argRate = 0 /\ argC \in {333667, 410000}) =>
    /\ ret.regionId = "alpha_gamma"
    /\ Len(ret.fractions) = 2
    /\ Near(ret.fractions[1].pos, 19265, Tol3)
    /\ Near(ret.fractions[2].pos, 648075, Tol3)
    /\ (argC = 333667 =>
          /\ Near(ret.fractions[1].frac, 50 * CS, OnePct)
          /\ Near(ret.fractions[2].frac, 50 * CS, OnePct))
    /\ (argC = 410000 =>
          /\ Near(ret.fractions[1].frac, 37861200, OnePct)
          /\ Near(ret.fractions[2].frac, 62138800, OnePct))

\* the call getState(0.41, 750, 0) with more austenite than ferrite
C9_Witness ==
  /\ Called
  /\ argC = 410000
  /\ argT = Deg(750)
  /\ argRate = 0
  /\ ret.fractions[2].name = "Austenite (γ)"
  /\ ret.fractions[2].frac > ret.fractions[1].frac

\* C10 as stated: getState(0.76, 700, 0) is alpha_Fe3C, labelled
\* 'Eutectoid (Pearlite)', with one fraction.
C10_EutectoidSinglePhase ==
  (Called /\ argC = 760000 /\ argT = Deg(700) /\ argRate = 0) =>
    /\ ret.regionId = "alpha_Fe3C"
    /\ ret.regionLabel = "Eutectoid (Pearlite)"
    /\ Len(ret.fractions) = 1

\* C10 amended: getState(0.76, 700, 0) is alpha_Fe3C, labelled
\* 'Eutectoid (Pearlite)', with the two fractions of the lever rule:
\* ferrite 88.9 +- 1 and cementite 11.1 +- 1.
C10_EutectoidPoint ==
  (Called /\ argC = 760000 /\ argT = Deg(700) /\ argRate = 0) =>
    /\ ret.regionId = "alpha_Fe3C"
    /\ ret.regionLabel = "Eutectoid (Pearlite)"
    /\ Len(ret.fractions) = 2
    /\ ret.fractions[1].name = "Ferrite (α)"
    /\ ret.fractions[2].name = "Cementite (Fe₃C)"
    /\ Near(ret.fractions[1].frac, 88867400, OnePct)
    /\ Near(ret.fractions[2].frac, 11132600, OnePct)

\* the call getState(0.76, 700, 0) itself
C10_Witness ==
  /\ Called
  /\ argC = 760000
  /\ argT = Deg(700)
  /\ argRate = 0
  /\ ret.micro = "100% Pearlite (Lamellar)"


\* C11: at T >= 1538, for every carbon and cooling rate, the result is region
\* L with the one fraction Liquid at 100, not quenched, micro 'Uniform
\* Liquid', yield = uts = hardness = 0 and elong = 100.
C11_FullyLiquid ==
  (Called /\ argT >= Deg(1538)) =>
    /\ ret.regionId = "L"
    /\ Len(ret.fractions) = 1
    /\ ret.fractions[1].name = "Liquid"
    /\ ret.fractions[1].frac = PCT
    /\ ~ret.isQuenched
    /\ ret.micro = "Uniform Liquid"
    /\ ret.yield = 0
    /\ ret.uts = 0
    /\ ret.hardness = 0
    /\ ret.elong = 100

\* the call getState(0.45, 1600, 0)
C11_Witness ==
  /\ Called
  /\ argC = 450000
  /\ argT = Deg(1600)
  /\ argRate = 0
  /\ ret.regionLabel = "Liquid Melt"

\* a tenth of a percentage point
TenthPct == CS \div 10

\* C12 as stated: for a quenching call at carbon 0.4, the result at T = 369.8
\* is a martensite state with martensite fraction about 0, and at T = 0 the
\* martensite fraction is about 98.3.
C12_MartensiteAtMs ==
  (Called /\ argC = 400000 /\ argRate >= 50) =>
    /\ ret.msTemp = << 3698000 >>
    /\ (argT = 3698000 =>
          /\ ret.regionId = "martensite"
          /\ Near(ret.fractions[1].frac, 0, OnePct))
    /\ (argT = 0 =>
          /\ ret.regionId = "martensite"
          /\ Near(ret.fractions[1].frac, 98288500, TenthPct))

\* C12 amended: for a quenching call at carbon 0.4, Ms = 369.8; just below Ms
\* (T = 369.7) the result is a martensite state with martensite fraction about
\* 0 (0.11); at T = 369.8 itself the strict test T < Ms fails and the state is
\* not quenched; at T = 0 the martensite fraction is about 98.3.
C12_KoistinenMarburger ==
  (Called /\ argC = 400000 /\ argRate >= 50) =>
    /\ ret.msTemp = << 3698000 >>
    /\ (argT = 3697000 =>
          /\ ret.regionId = "martensite"
          /\ ret.fractions[1].name = "Martensite (BCT)"
          /\ Near(ret.fractions[1].frac, 109900, TenthPct))
    /\ (argT = 3698000 =>
          /\ ~ret.isQuenched
          /\ ret.regionId = "alpha_Fe3C")
    /\ (argT = 0 =>
          /\ ret.regionId = "martensite"
          /\ ret.fractions[1].name = "Martensite (BCT)"
          /\ Near(ret.fractions[1].frac, 98288500, TenthPct))

\* a quench of carbon 0.4 down to 0 degrees: almost all martensite
C12_Witness ==
  /\ Called
  /\ argC = 400000
  /\ argRate = 150
  /\ argT = 0
  /\ ret.fractions[1].frac > 98 * CS
  /\ ret.fractions[2].frac > CS

InDiagram == argT >= 0 /\ argT <= Deg(1538)

CurveValues ==
  {curves.c_alpha, curves.c_a3, curves.c_acm, curves.c_solidus, curves.c_liquidus,
   curves.c_l_fe3c, curves.c_delta_solidus, curves.c_delta_liquidus}

\* C13: every boundary curve, at any temperature in [0, 1538], returns a
\* carbon value in [0, 6.67], and outside its active band a fixed clamped
\* constant; this includes c_l_fe3c above its band, which ends at 1250.
C13_CurveRange ==
  (Sampled /\ InDiagram) =>
    /\ \A v \in CurveValues : v >= 0 /\ v <= 6670000
    /\ (argT > Deg(912) => curves.c_alpha = 0 /\ curves.c_a3 = 760000)
    /\ (argT < Deg(727) => curves.c_a3 = 760000 /\ curves.c_acm = 760000)
    /\ (argT > Deg(1147) => curves.c_acm = 2110000)
    /\ (argT < Deg(1147) =>
          /\ curves.c_solidus = 2110000
          /\ curves.c_liquidus = 4300000
          /\ curves.c_l_fe3c = 4300000)
    /\ (argT > Deg(1495) => curves.c_solidus = 170000 /\ curves.c_liquidus = 530000)
    /\ (argT > Deg(1250) => curves.c_l_fe3c = 6670000)
    /\ (argT < Deg(1394) => curves.c_delta_solidus = 0)
    /\ (argT < Deg(1495) => curves.c_delta_liquidus = 0)


\* C15: msTemp is null exactly when the clamped carbon is >= 2.0 and otherwise
\* equals 539 - 423 * carbon (to the 1e-4 degree the temperatures carry),
\* whatever the temperature, the cooling rate and the quench flag.
C15_MsTemp ==
  Called =>
    /\ (ret.msTemp = <<>>) <=> (ClampedC >= 2 * CS)
    /\ (ClampedC < 2 * CS =>
          /\ Len(ret.msTemp) = 1
          /\ Near(ret.msTemp[1] * 100, 539 * CS - 423 * ClampedC, 99))

\* a non-quenched state of a steel that still carries its Ms
C15_Witness ==
  /\ Called
  /\ argC = CS
  /\ argT = Deg(1000)
  /\ ~ret.isQuenched
  /\ ret.msTemp = << Deg(116) >>

\* the regions of each temperature band, in the order of increasing carbon
BandRegions(T) ==
  IF T >= Deg(1538) THEN << "L" >>
  ELSE IF T >= Deg(1495) THEN << "delta", "delta_L", "L" >>
  ELSE IF T >= Deg(1394) THEN << "delta", "delta_gamma", "gamma", "gamma_L", "L" >>
  ELSE IF T > Deg(1147) THEN << "gamma", "gamma_L", "L", "L_Fe3C" >>
  ELSE IF T > Deg(727) THEN << "alpha", "alpha_gamma", "gamma", "gamma_Fe3C" >>
  ELSE << "alpha", "alpha_Fe3C" >>

\* the place of a region in its band, 0 when it does not belong to the band
RankIn(seq, id) ==
  IF \E i \in DOMAIN seq : seq[i] = id
  THEN CHOOSE i \in DOMAIN seq : seq[i] = id
  ELSE 0

\* the carbon inputs above the current one, and the nearest of them
HigherCarbons == {x \in CarbonInputs : x > argC}
NextCarbon == CHOOSE x \in HigherCarbons : \A y \in HigherCarbons : x <= y

\* C16: without quench, each temperature band yields only its own regions,
\* and within a band the region is a non-decreasing step function of carbon
\* (compared here with the call at the next larger carbon input).
C16_BandRegions ==
  (Called /\ ~ret.isQuenched) =>
    /\ RankIn(BandRegions(ClampedT), ret.regionId) > 0
    /\ (HigherCarbons # {} =>
          RankIn(BandRegions(ClampedT), ret.regionId)
            <= RankIn(BandRegions(ClampedT), getState(NextCarbon, argT, 0).regionId))

\* the last region of the widest band: gamma + L below the peritectic
C16_Witness ==
  /\ Called
  /\ argT = Deg(1450)
  /\ ret.regionId = "gamma_L"
  /\ HigherCarbons # {}
  /\ getState(NextCarbon, argT, 0).regionId = "L"

LeverIds ==
  {"delta_L", "delta_gamma", "gamma_L", "L_Fe3C", "alpha_gamma", "gamma_Fe3C",
   "alpha_Fe3C"}

\* the two endpoints and the two phase names that the decision tree hands to
\* lever for each two-phase region, read off the boundary curves at sT
TieLine(id, sT) ==
  CASE id = "delta_L" ->
         << c_delta_solidus(sT), c_delta_liquidus(sT), "Delta Ferrite (δ)", "Liquid" >>
    [] id = "delta_gamma" ->
         << c_delta_solidus(sT), c_perit_gamma(sT), "Delta Ferrite (δ)", "Austenite (γ)" >>
    [] id = "gamma_L" ->
         << c_solidus(sT), c_liquidus(sT), "Austenite (γ)", "Liquid" >>
    [] id = "L_Fe3C" ->
         << c_l_fe3c(sT), 6670000, "Liquid", "Cementite (Fe₃C)" >>
    [] id = "alpha_gamma" ->
         << c_alpha(sT), c_a3(sT), "Ferrite (α)", "Austenite (γ)" >>
    [] id = "gamma_Fe3C" ->
         << c_acm(sT), 6670000, "Austenite (γ)", "Cementite (Fe₃C)" >>
    [] id = "alpha_Fe3C" ->
         << c_alpha(sT), 6670000, "Ferrite (α)", "Cementite (Fe₃C)" >>

\* a non-quenched result in a two-phase region
LeverTaken == Called /\ ~ret.isQuenched /\ ret.regionId \in LeverIds

\* the lever values on the tie line <<c1, c2, name1, name2>>
LeverResult(tie) ==
  /\ Len(ret.fractions) = 2
  /\ ret.fractions[1].name = tie[3]
  /\ ret.fractions[2].name = tie[4]
  /\ ret.fractions[1].pos = tie[1]
  /\ ret.fractions[2].pos = tie[2]
  /\ tie[1] <= ClampedC
  /\ ClampedC <= tie[2]
  /\ ret.fractions[2].frac = DivPct(ClampedC - tie[1], tie[2] - tie[1])
  /\ ret.fractions[1].frac = PCT - ret.fractions[2].frac
  /\ \A i \in 1..2 : ret.fractions[i].frac >= 0 /\ ret.fractions[i].frac <= PCT

C18_DegenerateTieLine ==
  LeverTaken =>
    LET tie == TieLine(ret.regionId, ClampedT)
    IN  tie[2] - tie[1] < EPS =>
          ret.fractions = << [name |-> tie[3], frac |-> PCT, pos |-> tie[1]] >>

\* the liquid + cementite tie line just below 1250, where the liquid
\* boundary is within EPS of 6.67
C18_Witness ==
  /\ Called
  /\ ret.regionId = "L_Fe3C"
  /\ TieLine("L_Fe3C", ClampedT)[1] < ClampedC
  /\ 6670000 - TieLine("L_Fe3C", ClampedT)[1] < EPS
  /\ Len(ret.fractions) = 1
  /\ ret.fractions[1].name = "Liquid"


\* C19: a non-quenched alpha_Fe3C state within 0.02 of carbon 0.76 is labelled
\* 'Eutectoid (Pearlite)'; below that band the label is 'Hypoeutectoid
\* (α + P)', above it up to 2.11 'Hypereutectoid (P + Fe₃C)', and above 2.11
\* 'Cast Iron (White)'.
C19_LabelBand ==
  (Called /\ ~ret.isQuenched /\ ret.regionId = "alpha_Fe3C") =>
    ret.regionLabel =
      IF Abs(ClampedC - 760000) < 20000 THEN "Eutectoid (Pearlite)"
      ELSE IF ClampedC < 760000 THEN "Hypoeutectoid (α + P)"
      ELSE IF ClampedC <= 2110000 THEN "Hypereutectoid (P + Fe₃C)"
      ELSE "Cast Iron (White)"


\* a non-quenched result at or below the eutectoid temperature
BelowA1 == Called /\ ~ret.isQuenched /\ ClampedT <= Deg(727)

\* v is the integer nearest to raw / CS (a tie may go either way)
RoundsTo(v, raw) == 2 * Abs(v * CS - raw) <= CS

\* the ferrite and cementite fractions of the result, with eight decimals
FAlphaOf(r) == FindFrac(r.fractions, FerriteNames)
FFe3COf(r) == FindFrac(r.fractions, CementiteNames)
YieldRaw(r) == (3 * FAlphaOf(r)) \div 2 + 12 * FFe3COf(r)
HardnessRaw(r) == (4 * FAlphaOf(r)) \div 5 + 8 * FFe3COf(r)

\* C20: for a non-quenched state at T <= 727, yield, hardness, uts and elong
\* are the rounded values of 150 fAlpha + 1200 fFe3C, 80 fAlpha + 800 fFe3C,
\* 1.35 yield + 0.5 hardness (unrounded) and max(1, 40 fAlpha + 2 fFe3C);
\* yield lies in [150, 1200], hardness in [80, 800], and at a fixed
\* temperature neither decreases as carbon increases.
C20_FerriteCementiteProperties ==
  BelowA1 =>
    /\ FAlphaOf(ret) + FFe3COf(ret) = PCT
    /\ RoundsTo(ret.yield, YieldRaw(ret))
    /\ RoundsTo(ret.hardness, HardnessRaw(ret))
    /\ RoundsTo(ret.uts,
                YieldRaw(ret) + 7 * (YieldRaw(ret) \div 20) + HardnessRaw(ret) \div 2)
    /\ RoundsTo(ret.elong,
                Max(CS, (2 * FAlphaOf(ret)) \div 5 + FFe3COf(ret) \div 50))
    /\ ret.yield >= 150 /\ ret.yield <= 1200
    /\ ret.hardness >= 80 /\ ret.hardness <= 800
    /\ (HigherCarbons # {} =>
          LET next == getState(NextCarbon, argT, 0)
          IN  /\ ret.yield <= next.yield
              /\ ret.hardness <= next.hardness)

\* a ferrite + cementite state whose yield strength rises with the next
\* carbon content
C20_Witness ==
  /\ BelowA1
  /\ ret.regionId = "alpha_Fe3C"
  /\ Len(ret.fractions) = 2
  /\ ret.yield > 150
  /\ ret.elong > 1
  /\ HigherCarbons # {}
  /\ getState(NextCarbon, argT, 0).yield > ret.yield


\* v is the integer nearest to raw / scale (a tie may go either way)
RoundsToAt(v, raw, scale) == 2 * Abs(v * scale - raw) <= scale

\* C21: every quenched state has micro 'Lath Martensite' for carbon < 0.6
\* and 'Plate Martensite' otherwise, crystal BCT, yield = round(1000 + 2000 c),
\* hardness = round(300 + 500 c), uts = round(1.1 (1000 + 2000 c) +
\* 0.4 (300 + 500 c)) and elong = round(max(1, 15 - 15 c)), never below 1.
\* (Strengths are compared at the scale TS, where 2000 c is 20 * ClampedC.)
C21_QuenchedProperties ==
  (Called /\ ret.isQuenched) =>
    /\ ret.micro = (IF ClampedC < 600000 THEN "Lath Martensite" ELSE "Plate Martensite")
    /\ ret.crystal = "Body-Centered Tetragonal (BCT)"
    /\ RoundsToAt(ret.yield, 1000 * TS + 20 * ClampedC, TS)
    /\ RoundsToAt(ret.hardness, 300 * TS + 5 * ClampedC, TS)
    /\ RoundsToAt(ret.uts,
                  11 * (1000 * TS + 20 * ClampedC) + 4 * (300 * TS + 5 * ClampedC),
                  10 * TS)
    /\ RoundsToAt(ret.elong, Max(CS, 15 * CS - 15 * ClampedC), CS)
    /\ ret.elong >= 1

\* plate martensite at 1.0 wt% carbon, where the elongation sits on its floor
C21_Witness ==
  /\ Called
  /\ ret.isQuenched
  /\ argC = CS
  /\ ret.micro = "Plate Martensite"
  /\ ret.yield = 3000
  /\ ret.elong = 1


LiquidProperties ==
  /\ ret.micro = "Uniform Liquid"
  /\ ret.yield = 0 /\ ret.uts = 0 /\ ret.hardness = 0 /\ ret.elong = 100

LiquidRegion ==
  /\ ret.regionId = "L"
  /\ Len(ret.fractions) = 1
  /\ ret.fractions[1].name = "Liquid"

\* C22: a state has micro 'Uniform Liquid' (with yield, uts and hardness 0
\* and elong 100) if and only if its region is L with the single fraction
\* Liquid; no delta or delta_L state is reported as 'Uniform Liquid' and no L
\* state is reported with the solid 'FCC Dominant' properties.
C22_LiquidAgreement ==
  Called =>
    /\ LiquidProperties <=> LiquidRegion
    /\ (ret.regionId \in {"delta", "delta_L"} => ret.micro # "Uniform Liquid")
    /\ (ret.regionId = "L" => ret.crystal # "FCC Dominant")

\* C23: above the A3 transformation, for 912 < T <= 1147, every carbon in
\* [0, c_acm(T)] at a rate below 50 gives the single-phase region gamma with
\* austenite at 100, never alpha or alpha_gamma.
C23_NoFerriteAboveA3 ==
  (/\ Called
   /\ ClampedT > Deg(912) /\ ClampedT <= Deg(1147)
   /\ argC >= 0 /\ argC <= c_acm(ClampedT)
   /\ argRate < 50) =>
    /\ ret.regionId = "gamma"
    /\ Len(ret.fractions) = 1
    /\ ret.fractions[1].name = "Austenite (γ)"
    /\ ret.fractions[1].frac = PCT

\* C24: in a non-quenched state with two fractions the bulk carbon lies
\* between the two positions and is their fraction-weighted mean (up to
\* rounding); in a state of a single-phase region the one position is the
\* bulk carbon.
C24_MassBalance ==
  (Called /\ ~ret.isQuenched) =>
    /\ (Len(ret.fractions) = 2 =>
          LET f == ret.fractions
          IN  /\ f[1].pos <= ClampedC
              /\ ClampedC <= f[2].pos
              /\ f[1].frac + f[2].frac = PCT
              /\ Near(f[1].pos + MulS(f[2].frac \div 100, f[2].pos - f[1].pos),
                      ClampedC, EPS))
    /\ (ret.regionId \in SinglePhaseIds =>
          /\ Len(ret.fractions) = 1
          /\ ret.fractions[1].pos = ClampedC)

\* a state of the mushy zone strictly between solidus and liquidus
C24_Witness ==
  /\ Called
  /\ ~ret.isQuenched
  /\ ret.regionId = "gamma_L"
  /\ Len(ret.fractions) = 2
  /\ ret.fractions[1].pos < ClampedC
  /\ ClampedC < ret.fractions[2].pos
  /\ ret.fractions[1].frac > 0
  /\ ret.fractions[2].frac > 0

HasMartensite == \E i \in DOMAIN ret.fractions : ret.fractions[i].name = "Martensite (BCT)"

\* C25: isQuenched, regionId = 'martensite', regionLabel = 'Martensitic
\* (Quenched)' and the presence of a fraction 'Martensite (BCT)' are
\* equivalent, and a quenched state has temperature < 539, carbon < 539/423
\* and a non-null positive msTemp.
C25_QuenchMarkers ==
  Called =>
    /\ ret.isQuenched <=> (ret.regionId = "martensite")
    /\ ret.isQuenched <=> (ret.regionLabel = "Martensitic (Quenched)")
    /\ ret.isQuenched <=> HasMartensite
    /\ (ret.isQuenched =>
          /\ argT < Deg(539)
          /\ ClampedC <= (539 * CS) \div 423
          /\ Len(ret.msTemp) = 1
          /\ ret.msTemp[1] > 0)

\* a quench at 1.27 wt% carbon, the last sampled carbon below 539/423
C25_Witness ==
  /\ Called
  /\ ret.isQuenched
  /\ argC = 1270000
  /\ HasMartensite
  /\ ret.regionLabel = "Martensitic (Quenched)"


\* a cooling run that the user leaves alone: no user event is left
CoolingUnattended == mode \in CoolingModes /\ userActs = MaxUserActions

CooledDown ==
  /\ mode = "manual"
  /\ temp = AppDeg(20)
  /\ coolingRate = 0
  /\ timer = None

\* C26: once a cooling mode is set, from any temperature, and only the
\* 50 ms tick keeps firing, the app eventually has mode = 'manual',
\* temp = 20 and coolingRate = 0 with the interval cleared, and stays there.
C26_CoolingTerminates == CoolingUnattended ~> []CooledDown

\* the end of a cooling run after the last user event
C26_Witness ==
  /\ CooledDown
  /\ ~Pending
  /\ historyTrail = <<>>
  /\ userActs = MaxUserActions

\* C27: a tick of a cooling run at a temperature in [20, 1600] leaves temp
\* non-increasing and at or above the floor of 20, in all three modes, and
\* no trail point is recorded below 20.
C27_TickWithinFloor ==
  [][(Tick /\ temp >= AppDeg(20) /\ temp <= AppDeg(1600)) =>
       /\ temp' <= temp
       /\ temp' >= AppDeg(20)
       /\ \A i \in DOMAIN historyTrail' : historyTrail'[i].t >= AppDeg(20)]_allVars

\* C28: the displayed state is quenched only while mode = 'quench', also
\* right after a switch from quench to another mode and after a finished
\* quench run.
C28_QuenchedOnlyInQuenchMode == mode # "quench" => ~simState.isQuenched

\* C29: the trail never holds more than 31 points, is empty whenever
\* mode = 'manual', and every point carries the carbon currently selected.
C29_TrailScoped ==
  /\ Len(historyTrail) <= 31
  /\ (mode = "manual" => historyTrail = <<>>)
  /\ \A i \in DOMAIN historyTrail : historyTrail[i].c = carbon

\* C30: zoomSteel = true implies carbon <= 2.5 in every reachable app state.
C30_ZoomInvariant == zoomSteel => carbon <= 2500000

\* the zoom switched on at a carbon content above 2.5, which it clamps
C30_Witness ==
  /\ zoomSteel
  /\ carbon = 2500000
  /\ depCarbon = 3000000

=============================================================================
